---- MODULE Spec2Model ----
(***************************************************************************)
(* Kline ingestion and merge: the query server of                          *)
(* k线4h极值短线回测/server_bitget.py (REST pagination, single-slot cache, *)
(* live-feed threads), the buffer and websocket client of kline_2.py, and  *)
(* the single-request chart fetch of k线4h极值短线回测/server.py.          *)
(*                                                                         *)
(* Times are epoch milliseconds.  A candle is [time, sym, kind]: its open  *)
(* time, and two tags that stand for its OHLCV values, which depend on the *)
(* symbol the values were published for and on the update that carried     *)
(* them ("rest": a REST row, "open": a live update of a forming candle,    *)
(* "closed": a live update flagged closed).  The code never reads the tags.*)
(***************************************************************************)
EXTENDS Integers, Sequences, FiniteSets, TLC

VARIABLES
    now,          \* time.time() * 1000
    upstream,     \* how the REST endpoint pages: [inclusive, cap]
    KLINE_CACHE,  \* server_bitget.py: [key, data]
    WS_RUNNING, WS_SYMBOL, WS_INTERVAL,
    threads,      \* server_bitget.py: the feed threads start_ws has started
    q,            \* server_bitget.py: the get_klines call each request worker is in
    prev,         \* history: key and result of the query that returned last
    feedSince,    \* history: a live candle was handled since that return
    obs,          \* history: what the latest return looked like
    klines,       \* kline_2.py: KlineBuffer.klines, a deque(maxlen)
    current,      \* kline_2.py: KlineBuffer.current, <<>> for None
    bws,          \* kline_2.py: where the BinanceWSClient thread is
    lastUp,       \* history: the update KlineBuffer handled last
    bufHist,      \* history: the deque before that update, the candle it dropped last
    chartReq,     \* server.py: the parameters of the latest chart request
    chartRows,    \* server.py: the rows of its DataFrame
    token,        \* an interval token handed to interval_to_ms
    msResult,     \* what interval_to_ms made of it, <<>> before the call
    openArg,      \* an interval_ms handed to current_kline_open
    openResult,   \* what current_kline_open returned for it, <<>> before the call
    sent,         \* kline_2.py: the subscribe messages sent on the client's connection
    lastFrame     \* history: the latest frame without a usable candle, and its handling

serverVars == <<KLINE_CACHE, WS_RUNNING, WS_SYMBOL, WS_INTERVAL, threads, q,
                prev, feedSince, obs>>
bufferVars == <<klines, current, bws, lastUp, bufHist>>
chartVars == <<chartReq, chartRows>>
pureVars == <<token, msResult, openArg, openResult>>
wireVars == <<sent, lastFrame>>

vars == <<now, upstream, serverVars, bufferVars, chartVars, pureVars, wireVars>>

None == "None"
\* the value of KLINE_CACHE["key"] and of WS_INTERVAL before the first query
NoKey == [symbol |-> None, interval |-> <<>>, start |-> 0, end |-> 0, timezone |-> None]
NoInterval == <<>>

--------------------------------------------------------------------------
(* Bounds of the model *)

\* rows per REST page; the source asks for limit=1000 (server_bitget.py:149,171)
\* and the model pages in the same way with a small page
PAGE_SIZE == 2
\* clock advances of half a candle
MaxTicks == 1
\* feed threads started in one behaviour
MaxThreads == 3
\* KlineBuffer's deque length; the source keeps MAX_KLINES = 300 (kline_2.py:26)
\* and the model evicts in the same way from a short deque
MAX_KLINES == 3
\* characters in an interval token
MaxTokenLen == 3
\* clock values and interval lengths current_kline_open is applied to
MaxNow == 40
MaxInterval == 6
\* intervals past startTime that a row of an arbitrary page lies at most
MaxAhead == 2

Workers == {"w1", "w2"}
Symbols == {"BTCUSDT"}
Intervals == {<<"1", "m">>}
Timezones == {"UTC"}
MinuteMs == 60 * 1000
NowStart == 3 * MinuteMs + MinuteMs \div 2
Starts == {0, 3 * MinuteMs}
Ends == {2 * MinuteMs, 4 * MinuteMs}
BufTimes == {MinuteMs, 2 * MinuteMs, 3 * MinuteMs}
ChartStarts == {0, MinuteMs, 2 * MinuteMs, 3 * MinuteMs}
ChartEnds == {MinuteMs, 2 * MinuteMs, 3 * MinuteMs, 4 * MinuteMs, 5 * MinuteMs}

--------------------------------------------------------------------------
(* Sequences *)

Last(s) == s[Len(s)]
Front(s) == SubSeq(s, 1, Len(s) - 1)
Min(a, b) == IF a <= b THEN a ELSE b
StrictlyIncreasing(s) == \A i \in 1..(Len(s) - 1) : s[i].time < s[i + 1].time

--------------------------------------------------------------------------
(* server_bitget.py: tool functions *)

Digits == {"0", "1", "2", "3", "4", "5", "6", "7", "8", "9"}

DigitVal(c) ==
    CASE c = "0" -> 0 [] c = "1" -> 1 [] c = "2" -> 2 [] c = "3" -> 3
      [] c = "4" -> 4 [] c = "5" -> 5 [] c = "6" -> 6 [] c = "7" -> 7
      [] c = "8" -> 8 [] c = "9" -> 9

RECURSIVE DigitsVal(_)
DigitsVal(s) ==
    IF Len(s) = 0 THEN 0 ELSE 10 * DigitsVal(Front(s)) + DigitVal(Last(s))

\* int(str): an optional sign and at least one digit, ValueError otherwise
PyInt(s) ==
    LET signed == Len(s) > 0 /\ s[1] \in {"-", "+"}
        body == IF signed THEN Tail(s) ELSE s
    IN  IF Len(body) = 0 \/ \E i \in 1..Len(body) : body[i] \notin Digits
        THEN [ok |-> FALSE, err |-> "ValueError"]
        ELSE [ok |-> TRUE,
              val |-> IF signed /\ s[1] = "-" THEN -DigitsVal(body) ELSE DigitsVal(body)]

interval_to_ms(interval) ==
    IF Len(interval) = 0 THEN [ok |-> FALSE, err |-> "IndexError"]
    ELSE LET unit == Last(interval)
             v == PyInt(Front(interval))
         IN  IF ~v.ok THEN v
             ELSE CASE unit = "m" -> [ok |-> TRUE, val |-> v.val * 60000]
                    [] unit = "h" -> [ok |-> TRUE, val |-> v.val * 3600000]
                    [] unit = "d" -> [ok |-> TRUE, val |-> v.val * 86400000]
                    [] OTHER -> [ok |-> FALSE, err |-> "KeyError"]

\* the time into the forming candle instead of its open time
current_kline_elapsed(interval_ms) == now % interval_ms

current_kline_open(interval_ms) == now - (now % interval_ms)

TzOffsetMs(timezone) == CASE timezone = "UTC" -> 0

\* the wall-clock string is held as the milliseconds it denotes in its zone
zoned_local_to_utc_ms(iso_local, timezone) == iso_local - TzOffsetMs(timezone)

\* a wall-clock string that does not match "%Y-%m-%dT%H:%M"; the strings that
\* match are held as the milliseconds they denote, which are never negative
Unparsable == -1

\* datetime.strptime, line 44
strptime(iso_local) ==
    IF iso_local = Unparsable THEN [ok |-> FALSE, err |-> "ValueError"]
    ELSE [ok |-> TRUE, val |-> iso_local]

\* ZoneInfo(timezone), line 45: the zone's offset, or no such zone
ZoneInfo(timezone) ==
    IF timezone = "UTC" THEN [ok |-> TRUE, val |-> 0]
    ELSE [ok |-> FALSE, err |-> "ZoneInfoNotFoundError"]

\* zoned_local_to_utc_ms, lines 44-46, as the exception it raises or None
ZonedError(iso_local, timezone) ==
    IF ~strptime(iso_local).ok THEN strptime(iso_local).err
    ELSE IF ~ZoneInfo(timezone).ok THEN ZoneInfo(timezone).err
    ELSE None

\* get_klines, lines 131-136: the exception the three conversions or the
\* modulo of current_kline_open end with, None when the range resolves
ResolveError(key) ==
    IF ZonedError(key.start, key.timezone) # None
    THEN ZonedError(key.start, key.timezone)
    ELSE IF ZonedError(key.end, key.timezone) # None
    THEN ZonedError(key.end, key.timezone)
    ELSE IF ~interval_to_ms(key.interval).ok THEN interval_to_ms(key.interval).err
    ELSE IF interval_to_ms(key.interval).val = 0 THEN "ZeroDivisionError"
    ELSE None

--------------------------------------------------------------------------
(* The REST endpoint: candles of the symbol on the interval's grid, from   *)
(* the first at or after startTime up to the candle now forming, ascending,*)
(* at most min(limit, upstream.cap) rows; endTime is honoured exclusively  *)
(* or inclusively (a page that overshoots by the candle at endTime).       *)

RECURSIVE GridFrom(_, _, _, _, _)
GridFrom(symbol, interval_ms, t, hi, n) ==
    IF n = 0 \/ t > hi THEN <<>>
    ELSE <<[time |-> t, sym |-> symbol, kind |-> "rest"]>>
         \o GridFrom(symbol, interval_ms, t + interval_ms, hi, n - 1)

RestRows(symbol, interval_ms, startTime, endTime, limit) ==
    LET first == IF startTime <= 0 THEN 0
                 ELSE ((startTime + interval_ms - 1) \div interval_ms) * interval_ms
        hi == Min(now - (now % interval_ms),
                  IF upstream.inclusive THEN endTime ELSE endTime - 1)
    IN  GridFrom(symbol, interval_ms, first, hi, Min(limit, upstream.cap))

--------------------------------------------------------------------------
(* server_bitget.py: get_klines *)

\* the parameters of the queries that can fail: tokens interval_to_ms
\* rejects, a wall-clock string strptime rejects, a zone ZoneInfo does not
\* know, next to well-formed ones
ErrorIntervals == {<<"1", "m">>, <<"1", "x">>, <<"m">>, <<"0", "m">>, <<>>}
ErrorKeys ==
    [symbol : Symbols, interval : ErrorIntervals, start : {0, Unparsable},
     end : {2 * MinuteMs, 4 * MinuteMs, Unparsable},
     timezone : {"UTC", "Mars/Olympus"}]

QueryKeys ==
    [symbol : Symbols, interval : Intervals, start : Starts, end : Ends,
     timezone : Timezones]

Idle == [pc |-> "idle", key |-> NoKey, fetch_start |-> 0, rest_end |-> 0,
         end_ms |-> 0, cur_open |-> 0, interval_ms |-> 0, all_klines |-> <<>>,
         alias |-> FALSE, calls |-> 0, err |-> None, failed_page |-> 0]

NoObs == [sameKey |-> FALSE, noFeed |-> FALSE, same |-> FALSE, calls |-> 0,
          firstCalls |-> 0]

Active(w) == q[w].pc # "idle"

\* rows of a page kept by the loop of lines 157-168: the prefix before the
\* first row at or past rest_end
RECURSIVE KeepRows(_, _)
KeepRows(raw, rest_end) ==
    IF Len(raw) = 0 \/ raw[1].time >= rest_end THEN <<>>
    ELSE <<raw[1]>> \o KeepRows(Tail(raw), rest_end)

\* the cursor left on the last candle of the page instead of after it
NextStartOnLast(raw, interval_ms) == Last(raw).time

\* line 170
NextStart(raw, interval_ms) == Last(raw).time + interval_ms

\* the break test of line 171
LastPage(raw, interval_ms, rest_end) ==
    NextStart(raw, interval_ms) >= rest_end \/ Len(raw) < PAGE_SIZE

\* start_ws, lines 66-71
FeedRunningFor(symbol, interval) ==
    WS_RUNNING /\ WS_SYMBOL = symbol /\ WS_INTERVAL = interval

\* history: a query for key returns result after calls REST requests.  obs
\* tells whether the query that returned before it had the same key, whether
\* no live candle was handled between the two returns, whether the results
\* are equal, and the REST requests of each; settled tells that the range
\* ended at or before the candle forming when the range was resolved; live
\* tells that the list handed out is the list object the cache refers to
Returned(key, result, calls, settled, live) ==
    /\ obs' = [sameKey |-> prev.key = key, noFeed |-> ~feedSince,
               same |-> prev.key = key /\ prev.result = result,
               calls |-> calls, firstCalls |-> prev.calls]
    /\ prev' = [key |-> key, result |-> result, calls |-> calls,
                settled |-> settled, live |-> live]
    /\ feedSince' = FALSE

\* lines 126-129, a hit: the cached list is returned
CacheHit(w, key) ==
    /\ ~Active(w)
    /\ KLINE_CACHE.key = key
    /\ Returned(key, KLINE_CACHE.data, 0, prev.key = key /\ prev.settled, TRUE)
    /\ q' = [q EXCEPT ![w] = Idle]
    /\ UNCHANGED <<pureVars, wireVars, bufferVars, chartVars, now, upstream, KLINE_CACHE, WS_RUNNING, WS_SYMBOL, WS_INTERVAL,
                   threads>>

\* lines 126-139, a miss: the range is resolved and the loop is entered
CacheMiss(w, key) ==
    /\ ~Active(w)
    /\ KLINE_CACHE.key # key
    /\ ResolveError(key) = None
    /\ Len(threads) + Cardinality({v \in Workers : Active(v)}) < MaxThreads
    /\ LET start_ms == zoned_local_to_utc_ms(key.start, key.timezone)
           end_ms == zoned_local_to_utc_ms(key.end, key.timezone)
           interval_ms == interval_to_ms(key.interval).val
       IN  q' = [q EXCEPT ![w] =
                   [pc |-> "fetch", key |-> key, fetch_start |-> start_ms,
                    rest_end |-> Min(end_ms, current_kline_open(interval_ms)),
                    end_ms |-> end_ms,
                    cur_open |-> current_kline_open(interval_ms),
                    interval_ms |-> interval_ms, all_klines |-> <<>>,
                    alias |-> FALSE, calls |-> 0, err |-> None,
                    failed_page |-> 0]]
    /\ UNCHANGED <<pureVars, wireVars, bufferVars, chartVars, now, upstream, KLINE_CACHE, WS_RUNNING, WS_SYMBOL, WS_INTERVAL,
                   threads, prev, feedSince, obs>>

\* lines 153-173: the locals of call c after one pass of the loop over the
\* page raw
PageStep(c, raw) ==
    IF Len(raw) = 0
    THEN [c EXCEPT !.pc = "write_key", !.calls = @ + 1]
    ELSE [c EXCEPT
            !.calls = @ + 1,
            !.all_klines = @ \o KeepRows(raw, c.rest_end),
            !.pc = IF LastPage(raw, c.interval_ms, c.rest_end)
                   THEN "write_key" ELSE "fetch",
            !.fetch_start = IF LastPage(raw, c.interval_ms, c.rest_end)
                            THEN @ ELSE NextStart(raw, c.interval_ms)]

\* lines 141-173: one REST request and what the loop does with its page
FetchPage(w) ==
    /\ q[w].pc = "fetch"
    /\ LET c == q[w]
           raw == RestRows(c.key.symbol, c.interval_ms, c.fetch_start, c.rest_end,
                           PAGE_SIZE)
       IN  q' = [q EXCEPT ![w] = PageStep(c, raw)]
    /\ UNCHANGED <<pureVars, wireVars, bufferVars, chartVars, now, upstream, KLINE_CACHE, WS_RUNNING, WS_SYMBOL, WS_INTERVAL,
                   threads, prev, feedSince, obs>>

\* the pages an upstream may answer a request from startTime with, when all
\* it keeps to is that no row is before startTime: up to PAGE_SIZE rows, in
\* any order, repeated or not, at most MaxAhead intervals past startTime
RECURSIVE PagesOfLen(_, _)
PagesOfLen(rows, n) ==
    IF n = 0 THEN {<<>>}
    ELSE {Append(p, r) : p \in PagesOfLen(rows, n - 1), r \in rows}

AnyPages(symbol, interval_ms, startTime) ==
    LET rows == {[time |-> startTime + k * interval_ms, sym |-> symbol,
                  kind |-> "rest"] : k \in 0..MaxAhead}
    IN  UNION {PagesOfLen(rows, n) : n \in 0..PAGE_SIZE}

\* lines 141-173: one REST request answered with the page raw
FetchAnyPage(w, raw) ==
    /\ q[w].pc = "fetch"
    /\ Len(raw) <= PAGE_SIZE
    /\ \A n \in 1..Len(raw) :
         /\ raw[n].sym = q[w].key.symbol
         /\ raw[n].time >= q[w].fetch_start
    /\ q' = [q EXCEPT ![w] = PageStep(q[w], raw)]
    /\ UNCHANGED <<pureVars, wireVars, bufferVars, chartVars, now, upstream, KLINE_CACHE,
                   WS_RUNNING, WS_SYMBOL, WS_INTERVAL, threads, prev, feedSince, obs>>

\* the handler of a failed request emptying the slot
FetchRaisesResetsCache(w) ==
    /\ q[w].pc = "fetch"
    /\ q' = [q EXCEPT ![w] = [Idle EXCEPT !.err = "RequestException",
                                          !.calls = q[w].calls + 1]]
    /\ KLINE_CACHE' = [key |-> NoKey, data |-> <<>>]
    /\ UNCHANGED <<pureVars, wireVars, bufferVars, chartVars, now, upstream, WS_RUNNING,
                   WS_SYMBOL, WS_INTERVAL, threads, prev, feedSince, obs>>

\* lines 131-136: a conversion raises on a miss; get_klines ends with the
\* exception before any request is made
QueryRaises(w, key) ==
    /\ ~Active(w)
    /\ KLINE_CACHE.key # key
    /\ ResolveError(key) # None
    /\ q' = [q EXCEPT ![w] = [Idle EXCEPT !.err = ResolveError(key)]]
    /\ UNCHANGED <<pureVars, wireVars, bufferVars, chartVars, now, upstream, KLINE_CACHE, WS_RUNNING,
                   WS_SYMBOL, WS_INTERVAL, threads, prev, feedSince, obs>>

\* lines 153-155: the response is an upstream error body, without "data" (or
\* with "data": null); raw is empty and the loop ends as on an exhausted range
FetchErrorBody(w) ==
    /\ q[w].pc = "fetch"
    /\ q' = [q EXCEPT ![w] = [@ EXCEPT !.pc = "write_key", !.calls = @ + 1,
                                       !.failed_page = q[w].calls + 1]]
    /\ UNCHANGED <<pureVars, wireVars, bufferVars, chartVars, now, upstream, KLINE_CACHE, WS_RUNNING,
                   WS_SYMBOL, WS_INTERVAL, threads, prev, feedSince, obs>>

\* lines 142-153: requests.get raises (a timeout, a transport error) or the
\* body is not JSON; get_klines ends with the exception, nothing written
FetchRaises(w) ==
    /\ q[w].pc = "fetch"
    /\ q' = [q EXCEPT ![w] = [Idle EXCEPT !.err = "RequestException",
                                          !.calls = q[w].calls + 1]]
    /\ UNCHANGED <<pureVars, wireVars, bufferVars, chartVars, now, upstream, KLINE_CACHE, WS_RUNNING,
                   WS_SYMBOL, WS_INTERVAL, threads, prev, feedSince, obs>>

\* the key never recorded in the slot
WriteKeySkipped(w) ==
    /\ q[w].pc = "write_key"
    /\ q' = [q EXCEPT ![w].pc = "write_data"]
    /\ UNCHANGED <<pureVars, wireVars, bufferVars, chartVars, now, upstream, KLINE_CACHE, WS_RUNNING,
                   WS_SYMBOL, WS_INTERVAL, threads, prev, feedSince, obs>>

\* line 176
WriteKey(w) ==
    /\ q[w].pc = "write_key"
    /\ KLINE_CACHE' = [KLINE_CACHE EXCEPT !.key = q[w].key]
    /\ q' = [q EXCEPT ![w].pc = "write_data"]
    /\ UNCHANGED <<pureVars, wireVars, bufferVars, chartVars, now, upstream, WS_RUNNING, WS_SYMBOL, WS_INTERVAL, threads,
                   prev, feedSince, obs>>

\* line 177: the cache now refers to this call's list; a call whose list the
\* cache referred to until now keeps that list as it is
WriteData(w) ==
    /\ q[w].pc = "write_data"
    /\ KLINE_CACHE' = [KLINE_CACHE EXCEPT !.data = q[w].all_klines]
    /\ q' = [v \in Workers |->
               IF v = w THEN [q[w] EXCEPT !.pc = "start_ws", !.alias = TRUE,
                                          !.all_klines = <<>>]
               ELSE IF q[v].alias
               THEN [q[v] EXCEPT !.alias = FALSE, !.all_klines = KLINE_CACHE.data]
               ELSE q[v]]
    /\ prev' = [prev EXCEPT !.live = FALSE]
    /\ UNCHANGED <<pureVars, wireVars, bufferVars, chartVars, now, upstream, WS_RUNNING, WS_SYMBOL, WS_INTERVAL, threads,
                   feedSince, obs>>

\* lines 180-182 with start_ws, lines 63-71 and 112
StartWsAndReturn(w) ==
    /\ q[w].pc = "start_ws"
    /\ LET symbol == q[w].key.symbol
           interval == q[w].key.interval
       IN  IF FeedRunningFor(symbol, interval)
           THEN UNCHANGED <<WS_RUNNING, WS_SYMBOL, WS_INTERVAL, threads>>
           ELSE /\ WS_RUNNING' = TRUE
                /\ WS_SYMBOL' = symbol
                /\ WS_INTERVAL' = interval
                /\ threads' = Append(threads, [symbol |-> symbol, interval |-> interval,
                                               st |-> "connecting", subs |-> <<>>])
    /\ Returned(q[w].key,
                IF q[w].alias THEN KLINE_CACHE.data ELSE q[w].all_klines,
                q[w].calls, q[w].end_ms <= q[w].cur_open, q[w].alias)
    /\ q' = [q EXCEPT ![w] = Idle]
    /\ UNCHANGED <<pureVars, wireVars, bufferVars, chartVars, now, upstream, KLINE_CACHE>>

--------------------------------------------------------------------------
(* server_bitget.py: the feed thread of start_ws *)

\* the subscribe message the on_open of lines 102-109 sends
ServerSubscribe(symbol, interval) ==
    [op |-> "subscribe", channel |-> <<"candle", interval>>, instId |-> symbol]

\* the frames without a usable candle: the acknowledgement of a subscribe,
\* another JSON object without candle payload, a candle payload that lacks a
\* field or holds a value that does not convert, and a text that is not JSON
Frames == {"ack", "other", "missing_fields", "unparsable"}

\* WebSocketApp runs on_message for a frame: the callback returns, or it
\* raises and the exception ends in the dispatcher of the websocket library,
\* which logs it (and calls on_error where one is given) and reads on
Handled(by, frame, outcome) ==
    lastFrame' = <<[by |-> by, frame |-> frame, outcome |-> outcome]>>

\* on_message, lines 74-89, on a frame without a usable candle: json.loads
\* raises on a text that is not JSON, line 76 returns on a frame without
\* "data" and on any frame while the cached list is empty, and building the
\* candle raises on a payload with a missing or unconvertible field
ServerFrameOutcome(frame) ==
    CASE frame = "unparsable" -> "raised"
      [] frame \in {"ack", "other"} -> "returned"
      [] frame = "missing_fields" ->
           IF Len(KLINE_CACHE.data) = 0 THEN "returned" ELSE "raised"

OnOtherFrame(i, frame) ==
    /\ threads[i].st = "open"
    /\ Handled("server_bitget", frame, ServerFrameOutcome(frame))
    /\ UNCHANGED <<pureVars, sent, bufferVars, chartVars, now, upstream, serverVars>>

\* run, lines 97-110: the handshake succeeds and on_open subscribes
WsOpen(i) ==
    /\ threads[i].st = "connecting"
    /\ threads' = [threads EXCEPT
                     ![i].st = "open",
                     ![i].subs = Append(@, ServerSubscribe(threads[i].symbol,
                                                           threads[i].interval))]
    /\ UNCHANGED <<pureVars, wireVars, bufferVars, chartVars, now, upstream, KLINE_CACHE, WS_RUNNING, WS_SYMBOL, WS_INTERVAL,
                   q, prev, feedSince, obs>>

\* run, line 110: run_forever returns on a transport error or close, run
\* returns and the thread ends
WsDrop(i) ==
    /\ threads[i].st \in {"connecting", "open"}
    /\ threads' = [threads EXCEPT ![i].st = "exited"]
    /\ UNCHANGED <<pureVars, wireVars, bufferVars, chartVars, now, upstream, KLINE_CACHE, WS_RUNNING, WS_SYMBOL, WS_INTERVAL,
                   q, prev, feedSince, obs>>

\* on_message, lines 79-95, on a list that is not empty
Merge(data, candle) ==
    IF candle.time = Last(data).time THEN [data EXCEPT ![Len(data)] = candle]
    ELSE IF candle.time > Last(data).time THEN Append(data, candle)
    ELSE data

\* on_message, lines 76-95: the list after a frame carrying candle
Upsert(data, candle) ==
    IF Len(data) = 0 THEN data ELSE Merge(data, candle)

\* the candle on_message builds from a frame of the thread's channel
LiveCandle(i, ts, closed) ==
    [time |-> ts, sym |-> threads[i].symbol,
     kind |-> IF closed THEN "closed" ELSE "open"]

\* on_message, lines 73-95: a frame carrying a candle for the thread's channel
OnMessage(i, ts, closed) ==
    /\ threads[i].st = "open"
    /\ KLINE_CACHE' = [KLINE_CACHE EXCEPT !.data = Upsert(@, LiveCandle(i, ts, closed))]
    /\ feedSince' = TRUE
    /\ UNCHANGED <<pureVars, wireVars, bufferVars, chartVars, now, upstream, WS_RUNNING, WS_SYMBOL, WS_INTERVAL, threads, q,
                   prev, obs>>

\* the candle times a feed publishes: the forming candle and the one before
FeedTimes(interval) ==
    LET ms == interval_to_ms(interval).val
        cur == now - (now % ms)
    IN  {cur - ms, cur}

--------------------------------------------------------------------------
(* kline_2.py: KlineBuffer *)

SYMBOL == "btcusdt"
INTERVAL == <<"1", "m">>

\* the subscribe message of on_open, lines 88-93
BufSubscribe == [method |-> "SUBSCRIBE", params |-> <<SYMBOL, "@kline_", INTERVAL>>]

\* a deque without maxlen
DequeAppendUnbounded(d, x) == Append(d, x)

\* deque(maxlen).append: a full deque drops its oldest element
DequeAppend(d, x) ==
    IF Len(d) >= MAX_KLINES THEN Tail(d) \o <<x>> ELSE Append(d, x)

\* KlineBuffer.update, lines 38-44: the new (klines, current)
update(kline, closed) ==
    IF closed THEN <<DequeAppend(klines, kline), <<>>>>
    ELSE <<klines, <<kline>>>>

\* KlineBuffer.to_dataframe, lines 46-51: the rows of the frame
to_dataframe == klines \o current

\* datetime.fromtimestamp(t / 1000): the second the millisecond falls in
FromTimestampMs(t) == t \div 1000

\* BinanceWSClient.on_message, lines 100-109: the kline built from a frame
BufKline(ts, closed) ==
    [time |-> FromTimestampMs(ts), sym |-> SYMBOL,
     kind |-> IF closed THEN "closed" ELSE "open"]

\* BinanceWSClient.on_message, lines 95-111, on a frame with a "k" payload
BufMessage(ts, closed) ==
    /\ bws = "streaming"
    /\ LET kline == BufKline(ts, closed)
           new == update(kline, closed)
       IN  /\ klines' = new[1]
           /\ current' = new[2]
           /\ lastUp' = <<[kline |-> kline, closed |-> closed]>>
           /\ bufHist' = [before |-> klines,
                          dropped |-> IF closed /\ Len(new[1]) <= Len(klines)
                                      THEN <<klines[1]>> ELSE bufHist.dropped]
    /\ UNCHANGED <<pureVars, wireVars, now, upstream, serverVars, chartVars, bws>>

\* BinanceWSClient.on_message, lines 96-111, on a frame without a usable
\* candle: json.loads raises on a text that is not JSON, line 98 returns on
\* a frame without "k", and building the kline (or reading k["x"]) raises
\* before update is called
BufFrameOutcome(frame) ==
    CASE frame = "unparsable" -> "raised"
      [] frame \in {"ack", "other"} -> "returned"
      [] frame = "missing_fields" -> "raised"

\* a callback that raises ending the connection
BufOtherFrameTearsDown(frame) ==
    /\ bws = "streaming"
    /\ Handled("kline_2", frame, BufFrameOutcome(frame))
    /\ bws' = IF BufFrameOutcome(frame) = "raised" THEN "on_close" ELSE bws
    /\ UNCHANGED <<pureVars, sent, now, upstream, serverVars, chartVars, klines,
                   current, lastUp, bufHist>>

BufOtherFrame(frame) ==
    /\ bws = "streaming"
    /\ Handled("kline_2", frame, BufFrameOutcome(frame))
    /\ UNCHANGED <<pureVars, sent, now, upstream, serverVars, chartVars, bufferVars>>

\* kline.py, on_message, lines 19-35, on a frame without a usable candle:
\* line 23 returns on a frame with "result"; data["k"] raises on another
\* frame without "k"; nothing is stored
KlineFrameOutcome(frame) ==
    CASE frame = "unparsable" -> "raised"
      [] frame = "ack" -> "returned"
      [] frame \in {"other", "missing_fields"} -> "raised"

KlineOtherFrame(frame) ==
    /\ Handled("kline", frame, KlineFrameOutcome(frame))
    /\ UNCHANGED <<pureVars, sent, now, upstream, serverVars, chartVars, bufferVars>>

--------------------------------------------------------------------------
(* kline_2.py: BinanceWSClient.run, the reconnect loop *)

\* a connection whose on_open sends nothing
BwsOpenSilent ==
    /\ bws = "connecting"
    /\ bws' = "streaming"
    /\ UNCHANGED <<pureVars, wireVars, now, upstream, serverVars, chartVars, klines,
                   current, lastUp, bufHist>>

\* _connect, lines 71-93: the handshake succeeds and on_open subscribes
BwsOpen ==
    /\ bws = "connecting"
    /\ bws' = "streaming"
    /\ sent' = [sent EXCEPT !.msgs = Append(@, BufSubscribe)]
    /\ UNCHANGED <<pureVars, lastFrame, now, upstream, serverVars, chartVars, klines,
                   current, lastUp, bufHist>>

\* run_forever meets a transport error, a close or a ping timeout: on_error,
\* then on_close sleeps RECONNECT_DELAY (lines 113-118)
BwsDrop ==
    /\ bws \in {"connecting", "streaming"}
    /\ bws' = "on_close"
    /\ UNCHANGED <<pureVars, wireVars, now, upstream, serverVars, chartVars, klines, current, lastUp,
                   bufHist>>

\* _connect raises: the except branch of run sleeps (lines 67-69)
BwsExcept ==
    /\ bws = "connecting"
    /\ bws' = "except"
    /\ UNCHANGED <<pureVars, wireVars, now, upstream, serverVars, chartVars, klines, current, lastUp,
                   bufHist>>

\* run, line 64: the loop calls _connect again
BwsLoop ==
    /\ bws \in {"on_close", "except"}
    /\ bws' = "connecting"
    /\ sent' = [again |-> TRUE, msgs |-> <<>>]
    /\ UNCHANGED <<pureVars, lastFrame, now, upstream, serverVars, chartVars, klines,
                   current, lastUp, bufHist>>

--------------------------------------------------------------------------
(* server.py: chart, lines 107-137: one REST request, every row kept *)

NoReq == [interval |-> <<>>, start |-> 0, end |-> 0, timezone |-> None, at |-> 0]

chart(interval, start, end, timezone) ==
    /\ LET start_ts == zoned_local_to_utc_ms(start, timezone)
           end_ts == zoned_local_to_utc_ms(end, timezone)
       IN  chartRows' = RestRows("BTCUSDT", interval_to_ms(interval).val,
                                 start_ts, end_ts, PAGE_SIZE)
    /\ chartReq' = [interval |-> interval, start |-> start, end |-> end,
                    timezone |-> timezone, at |-> now]
    /\ UNCHANGED <<pureVars, wireVars, now, upstream, serverVars, bufferVars>>

--------------------------------------------------------------------------
(* Time *)

Tick ==
    /\ now < NowStart + MaxTicks * (MinuteMs \div 2)
    /\ now' = now + MinuteMs \div 2
    /\ UNCHANGED <<pureVars, wireVars, upstream, serverVars, bufferVars, chartVars>>

--------------------------------------------------------------------------

\* the program state after import
ProgramInit ==
    /\ upstream \in [inclusive : BOOLEAN, cap : 1..PAGE_SIZE]
    /\ KLINE_CACHE = [key |-> NoKey, data |-> <<>>]
    /\ WS_RUNNING = FALSE
    /\ WS_SYMBOL = None
    /\ WS_INTERVAL = NoInterval
    /\ threads = <<>>
    /\ q = [w \in Workers |-> Idle]
    /\ prev = [key |-> NoKey, result |-> <<>>, calls |-> 0, settled |-> FALSE,
               live |-> FALSE]
    /\ feedSince = FALSE
    /\ obs = NoObs
    /\ klines = <<>>
    /\ current = <<>>
    /\ bws = "connecting"
    /\ lastUp = <<>>
    /\ bufHist = [before |-> <<>>, dropped |-> <<>>]
    /\ chartReq = NoReq
    /\ chartRows = <<>>

Init ==
    /\ ProgramInit
    /\ now = NowStart
    /\ token = <<>>
    /\ msResult = <<>>
    /\ openArg = 1
    /\ openResult = <<>>
    /\ sent = [again |-> FALSE, msgs |-> <<>>]
    /\ lastFrame = <<>>

\* interval_to_ms applied to a token
IntervalToMs ==
    /\ msResult = <<>>
    /\ msResult' = <<interval_to_ms(token)>>
    /\ UNCHANGED <<now, upstream, serverVars, bufferVars, chartVars, wireVars, token,
                   openArg, openResult>>

TokenChars == {"0", "1", "2", "-", "m", "h", "d", "x"}

RECURSIVE TokensOfLen(_)
TokensOfLen(n) ==
    IF n = 0 THEN {<<>>}
    ELSE {Append(t, c) : t \in TokensOfLen(n - 1), c \in TokenChars}

Tokens == UNION {TokensOfLen(n) : n \in 0..MaxTokenLen}

InitInterval ==
    /\ ProgramInit
    /\ now = NowStart
    /\ token \in Tokens
    /\ msResult = <<>>
    /\ openArg = 1
    /\ openResult = <<>>
    /\ sent = [again |-> FALSE, msgs |-> <<>>]
    /\ lastFrame = <<>>

SpecInterval == InitInterval /\ [][IntervalToMs]_vars

\* current_kline_open applied to an interval at some time of the clock
CurrentKlineOpen ==
    /\ openResult = <<>>
    /\ openResult' = <<current_kline_open(openArg)>>
    /\ UNCHANGED <<now, upstream, serverVars, bufferVars, chartVars, wireVars, token,
                   msResult, openArg>>

InitOpen ==
    /\ ProgramInit
    /\ now \in 0..MaxNow
    /\ token = <<>>
    /\ msResult = <<>>
    /\ openArg \in 1..MaxInterval
    /\ openResult = <<>>
    /\ sent = [again |-> FALSE, msgs |-> <<>>]
    /\ lastFrame = <<>>

SpecOpen == InitOpen /\ [][CurrentKlineOpen]_vars

\* one request at a time
Next ==
    \/ \E key \in QueryKeys : CacheHit("w1", key)
    \/ \E key \in QueryKeys : CacheMiss("w1", key)
    \/ FetchPage("w1")
    \/ FetchRaises("w1")
    \/ WriteKey("w1")
    \/ WriteData("w1")
    \/ StartWsAndReturn("w1")
    \/ \E i \in 1..Len(threads) : WsOpen(i)
    \/ \E i \in 1..Len(threads) : WsDrop(i)
    \/ \E i \in 1..Len(threads), closed \in BOOLEAN :
         \E ts \in FeedTimes(threads[i].interval) : OnMessage(i, ts, closed)
    \/ Tick

Spec == Init /\ [][Next]_vars

\* one request at a time, requests that fail among them
NextErrors ==
    \/ \E key \in ErrorKeys : CacheHit("w1", key)
    \/ \E key \in ErrorKeys : CacheMiss("w1", key)
    \/ \E key \in ErrorKeys : QueryRaises("w1", key)
    \/ FetchPage("w1")
    \/ FetchRaises("w1")
    \/ FetchErrorBody("w1")
    \/ WriteKey("w1")
    \/ WriteData("w1")
    \/ StartWsAndReturn("w1")
    \/ \E i \in 1..Len(threads) : WsOpen(i)
    \/ \E i \in 1..Len(threads), closed \in BOOLEAN :
         \E ts \in FeedTimes(threads[i].interval) : OnMessage(i, ts, closed)

SpecErrors == Init /\ [][NextErrors]_vars

\* queries that alternate between two symbols, one request at a time
PairSymbols == {"BTCUSDT", "ETHUSDT"}
PairKeys ==
    [symbol : PairSymbols, interval : Intervals, start : {0},
     end : {4 * MinuteMs}, timezone : Timezones]

NextPairs ==
    \/ \E key \in PairKeys : CacheHit("w1", key)
    \/ \E key \in PairKeys : CacheMiss("w1", key)
    \/ FetchPage("w1")
    \/ WriteKey("w1")
    \/ WriteData("w1")
    \/ StartWsAndReturn("w1")
    \/ \E i \in 1..Len(threads) : WsOpen(i)
    \/ \E i \in 1..Len(threads), closed \in BOOLEAN :
         \E ts \in FeedTimes(threads[i].interval) : OnMessage(i, ts, closed)

SpecPairs == Init /\ [][NextPairs]_vars

\* queries for two symbols served by two workers of the thread pool, their
\* statements interleaved
NextConcurrent ==
    \/ \E w \in Workers, key \in PairKeys : CacheHit(w, key)
    \/ \E w \in Workers, key \in PairKeys : CacheMiss(w, key)
    \/ \E w \in Workers : FetchPage(w)
    \/ \E w \in Workers : WriteKey(w)
    \/ \E w \in Workers : WriteData(w)
    \/ \E w \in Workers : StartWsAndReturn(w)

SpecConcurrent == Init /\ [][NextConcurrent]_vars

\* one query over the candles before the forming one
FeedKeys ==
    [symbol : Symbols, interval : Intervals, start : {0}, end : {4 * MinuteMs},
     timezone : Timezones]

\* one request at a time against an upstream that answers with any page of
\* rows at or after startTime
PagingStep ==
    \E raw \in AnyPages("BTCUSDT", MinuteMs, q["w1"].fetch_start) :
      FetchAnyPage("w1", raw)

NextPaging ==
    \/ \E key \in FeedKeys : CacheMiss("w1", key)
    \/ PagingStep
    \/ WriteKey("w1")
    \/ WriteData("w1")
    \/ StartWsAndReturn("w1")

SpecPaging == Init /\ [][NextPaging]_vars

\* the worker thread runs: a request it can make is made and answered (or
\* times out, timeout=10)
SpecPagingFair == SpecPaging /\ WF_vars(PagingStep)

\* the three feeds side by side: the thread one query of the server starts,
\* the client of kline_2.py with its reconnect loop, the callbacks of kline.py
NextFeeds ==
    \/ \E key \in FeedKeys : CacheMiss("w1", key)
    \/ FetchPage("w1")
    \/ WriteKey("w1")
    \/ WriteData("w1")
    \/ StartWsAndReturn("w1")
    \/ \E i \in 1..Len(threads) : WsOpen(i)
    \/ \E i \in 1..Len(threads) : WsDrop(i)
    \/ \E i \in 1..Len(threads), closed \in BOOLEAN :
         \E ts \in FeedTimes(threads[i].interval) : OnMessage(i, ts, closed)
    \/ \E i \in 1..Len(threads), frame \in Frames : OnOtherFrame(i, frame)
    \/ \E closed \in BOOLEAN : BufMessage(MinuteMs, closed)
    \/ \E frame \in Frames : BufOtherFrame(frame)
    \/ BwsOpen
    \/ BwsDrop
    \/ BwsExcept
    \/ BwsLoop
    \/ \E frame \in Frames : KlineOtherFrame(frame)

SpecFeeds == Init /\ [][NextFeeds]_vars

\* kline_2.py
NextBuffer ==
    \/ \E ts \in BufTimes, closed \in BOOLEAN : BufMessage(ts, closed)
    \/ \E frame \in Frames : BufOtherFrame(frame)
    \/ BwsOpen
    \/ BwsDrop
    \/ BwsExcept
    \/ BwsLoop

SpecBuffer == Init /\ [][NextBuffer]_vars

\* the client thread is scheduled: its loop goes on whenever it can
SpecBufferFair == SpecBuffer /\ WF_vars(BwsLoop)

\* server.py
NextChart ==
    \/ \E interval \in Intervals, start \in ChartStarts, end \in ChartEnds,
          timezone \in Timezones : chart(interval, start, end, timezone)
    \/ Tick

SpecChart == Init /\ [][NextChart]_vars

--------------------------------------------------------------------------
(* Properties *)

IsClosed(c) == c.kind \in {"closed", "rest"}

\* the candles of s at open time t
At(s, t) == {i \in 1..Len(s) : s[i].time = t}

\* every candle of the symbol's grid with lo <= time < hi, ascending
RECURSIVE RangeCandles(_, _, _, _)
RangeCandles(symbol, interval_ms, lo, hi) ==
    LET first == IF lo <= 0 THEN 0
                 ELSE ((lo + interval_ms - 1) \div interval_ms) * interval_ms
    IN  IF first >= hi THEN <<>>
        ELSE <<[time |-> first, sym |-> symbol, kind |-> "rest"]>>
             \o RangeCandles(symbol, interval_ms, first + interval_ms, hi)

FetchDone(w) == q[w].pc = "write_key"

\* C1: after any sequence of history loads and live updates, the series a
\* reader gets (the cached list of the query server, the frame of
\* KlineBuffer) is strictly increasing by open time, with no open time twice.
C1_SeriesStrictlyIncreasing ==
    /\ StrictlyIncreasing(KLINE_CACHE.data)
    /\ StrictlyIncreasing(prev.result)
    /\ StrictlyIncreasing(to_dataframe)

\* C1, the query server alone: the cached list and every returned list are
\* strictly increasing (handlers taken as atomic steps).
C1_ServerSeriesStrictlyIncreasing ==
    /\ StrictlyIncreasing(KLINE_CACHE.data)
    /\ StrictlyIncreasing(prev.result)

\* what C2 asks of a series s that a live update (candle, closed) turns
\* into s2
MergePrecedence(s, s2, candle, closed) ==
    /\ ~closed =>
         \A i \in At(s, candle.time) :
            IsClosed(s[i]) => \E j \in At(s2, candle.time) :
                                 /\ At(s2, candle.time) = {j}
                                 /\ s2[j] = s[i]
    /\ (closed /\ Len(s) > 0 /\ Last(s).time = candle.time /\ ~IsClosed(Last(s))) =>
         \E j \in At(s2, candle.time) :
            /\ At(s2, candle.time) = {j}
            /\ s2[j] = candle

\* C2: an open-flagged update at T that arrives after a closed candle at T
\* leaves the closed version at T in the snapshot; a closed update at T that
\* arrives after an open candle at T replaces it, and T appears once.
C2_MergePrecedence ==
    [][/\ \A ts \in BufTimes, closed \in BOOLEAN :
            BufMessage(ts, closed) =>
              MergePrecedence(to_dataframe, to_dataframe', BufKline(ts, closed), closed)
       /\ \A i \in 1..Len(threads), closed \in BOOLEAN :
            \A ts \in FeedTimes(threads[i].interval) :
              OnMessage(i, ts, closed) =>
                MergePrecedence(KLINE_CACHE.data, KLINE_CACHE'.data,
                                LiveCandle(i, ts, closed), closed)]_vars

\* C3 as stated: for an upstream that serves the requested range in ascending
\* pages of at most PAGE_SIZE rows, each from the requested startTime, the
\* list the fetch loop ends with holds every candle of the range it requests,
\* start <= open time < rest_end, once and ascending.
C3_FetchReturnsWholeRange ==
    \A w \in Workers :
      FetchDone(w) =>
        q[w].all_klines =
          RangeCandles(q[w].key.symbol, q[w].interval_ms,
                       zoned_local_to_utc_ms(q[w].key.start, q[w].key.timezone),
                       q[w].rest_end)

\* C3 amended: the same, for an upstream whose pages hold PAGE_SIZE rows
\* whenever that many rows of the range remain (only the last page is short).
C3_FetchReturnsWholeRangeFullPages ==
    \A w \in Workers :
      (FetchDone(w) /\ upstream.cap >= PAGE_SIZE) =>
        q[w].all_klines =
          RangeCandles(q[w].key.symbol, q[w].interval_ms,
                       zoned_local_to_utc_ms(q[w].key.start, q[w].key.timezone),
                       q[w].rest_end)

\* a fetch over full pages that took more than one request and holds more
\* than one page of candles
C3_Witness ==
    \E w \in Workers :
      /\ FetchDone(w)
      /\ upstream.cap >= PAGE_SIZE
      /\ q[w].calls >= 2
      /\ Len(q[w].all_klines) > PAGE_SIZE

\* C4 as stated: a query that repeats the key of the query that returned
\* before it, that one a miss and no live candle handled in between, returns
\* the same result, and the two together made exactly one REST request.
C4_RepeatOneRoundTrip ==
    (obs.sameKey /\ obs.noFeed /\ obs.firstCalls > 0) =>
      (obs.same /\ obs.firstCalls + obs.calls = 1)

\* C4 amended: a query that repeats the key of the query that returned before
\* it, no live candle handled in between, returns the same result and makes
\* no REST request: the pair makes the requests of the first query only.
C4_RepeatIsHit ==
    (obs.sameKey /\ obs.noFeed) => (obs.same /\ obs.calls = 0)

\* a repeat, with nothing from the feed in between, of a query that fetched
\* over REST
C4_Witness ==
    obs.sameKey /\ obs.noFeed /\ obs.firstCalls > 0 /\ Len(prev.result) > 0

\* C5: a live update is appended when the series is empty or the update's
\* open time is greater than the last one: the series then ends with that
\* candle and is one longer.
C5_AppendWhenEmptyOrLater ==
    [][/\ \A i \in 1..Len(threads), closed \in BOOLEAN :
            \A ts \in FeedTimes(threads[i].interval) :
              (/\ OnMessage(i, ts, closed)
               /\ (Len(KLINE_CACHE.data) = 0 \/ ts > Last(KLINE_CACHE.data).time))
              => KLINE_CACHE'.data = Append(KLINE_CACHE.data, LiveCandle(i, ts, closed))
       /\ \A ts \in BufTimes, closed \in BOOLEAN :
            (/\ BufMessage(ts, closed)
             /\ (Len(to_dataframe) = 0
                 \/ FromTimestampMs(ts) > Last(to_dataframe).time))
            => to_dataframe' = Append(to_dataframe, BufKline(ts, closed))]_vars

\* what C6 asks of a series s, not empty, that a live update turns into s2
OverwriteOrDiscard(s, s2, candle) ==
    /\ candle.time = Last(s).time => s2 = [s EXCEPT ![Len(s)] = candle]
    /\ candle.time < Last(s).time => s2 = s

\* C6: a live update at the last retained open time overwrites the last
\* candle in place (length and earlier candles unchanged); one before the
\* last retained open time is discarded and the series is unchanged.
C6_OverwriteOrDiscard ==
    [][/\ \A i \in 1..Len(threads), closed \in BOOLEAN :
            \A ts \in FeedTimes(threads[i].interval) :
              (OnMessage(i, ts, closed) /\ Len(KLINE_CACHE.data) > 0)
              => OverwriteOrDiscard(KLINE_CACHE.data, KLINE_CACHE'.data,
                                    LiveCandle(i, ts, closed))
       /\ \A ts \in BufTimes, closed \in BOOLEAN :
            (BufMessage(ts, closed) /\ Len(to_dataframe) > 0)
            => OverwriteOrDiscard(to_dataframe, to_dataframe', BufKline(ts, closed))]_vars

\* C6, the query server alone
C6_ServerOverwriteOrDiscard ==
    [][\A i \in 1..Len(threads), closed \in BOOLEAN :
         \A ts \in FeedTimes(threads[i].interval) :
           (OnMessage(i, ts, closed) /\ Len(KLINE_CACHE.data) > 0)
           => OverwriteOrDiscard(KLINE_CACHE.data, KLINE_CACHE'.data,
                                 LiveCandle(i, ts, closed))]_vars

\* C7: the identical closed candle upserted twice in a row gives the series
\* that one upsert gives.
C7_ClosedUpsertIdempotent ==
    [][/\ \A ts \in BufTimes :
            (/\ BufMessage(ts, TRUE)
             /\ lastUp = <<[kline |-> BufKline(ts, TRUE), closed |-> TRUE]>>)
            => to_dataframe' = to_dataframe
       /\ \A i \in 1..Len(threads) : \A ts \in FeedTimes(threads[i].interval) :
            OnMessage(i, ts, TRUE)
            => Upsert(KLINE_CACHE'.data, LiveCandle(i, ts, TRUE)) = KLINE_CACHE'.data]_vars

\* C8: every candle a history fetch for [start, end) yields has an open time
\* below min(end, open time of the candle forming at the fetch).
C8_FetchBelowEndAndForming ==
    /\ \A w \in Workers : \A i \in 1..Len(q[w].all_klines) :
         q[w].all_klines[i].time < Min(q[w].end_ms, q[w].cur_open)
    /\ \A i \in 1..Len(chartRows) :
         LET ms == interval_to_ms(chartReq.interval).val
         IN  chartRows[i].time <
               Min(zoned_local_to_utc_ms(chartReq.end, chartReq.timezone),
                   chartReq.at - (chartReq.at % ms))

\* C8, get_klines alone: the list under construction stays below rest_end
C8_ServerFetchBelowEndAndForming ==
    \A w \in Workers : \A i \in 1..Len(q[w].all_klines) :
      q[w].all_klines[i].time < Min(q[w].end_ms, q[w].cur_open)

\* C9: a query whose range ended before the candle forming when it was first
\* answered gets the same candles on every repeat, whatever the feed sent in
\* between.
C9_SettledRangeRepeatsSame ==
    (obs.sameKey /\ prev.settled) => obs.same

\* C10: a feed that has gone down is not abandoned: a connection attempt for
\* its (symbol, interval) is under way or will be made.  A thread of start_ws
\* that is "exited" has returned from run and connects no more; the loop of
\* BinanceWSClient.run leaves "on_close" and "except" for "connecting".
C10_FeedNeverAbandoned ==
    /\ \A i \in 1..Len(threads) :
         threads[i].st = "exited" =>
           \E j \in 1..Len(threads) :
             /\ threads[j].symbol = threads[i].symbol
             /\ threads[j].interval = threads[i].interval
             /\ threads[j].st \in {"connecting", "open"}
    /\ bws \in {"on_close", "except"} => ENABLED BwsLoop

\* C10, BinanceWSClient.run alone: after every drop the loop connects again
C10_BufferReconnects == (bws \in {"on_close", "except"}) ~> (bws = "connecting")

\* a step of the call of worker w before its first write: the lookup and the
\* conversions of lines 126-139 (CacheHit, CacheMiss, QueryRaises) and the
\* loop of lines 141-173 (FetchPage, FetchErrorBody, FetchRaises)
BeforeFirstWrite(w) == q'[w] # q[w] /\ q[w].pc \in {"idle", "fetch"}

\* C11: a query that fails (a conversion of lines 131-133 raising, a REST
\* request raising on any page) has left the cached key, the cached list, the
\* feed flags and the feed threads as they were: every step of a call up to
\* and including the one that raises changes none of them, an exception is
\* the outcome of an idle worker only, and a list under construction is the
\* call's own (the cache does not refer to it).
C11_FailedQueryWritesNothing ==
    [][\A w \in Workers :
         /\ BeforeFirstWrite(w) =>
              UNCHANGED <<KLINE_CACHE, WS_RUNNING, WS_SYMBOL, WS_INTERVAL, threads>>
         /\ q'[w].err # None => (q'[w].pc = "idle" /\ ~q'[w].alias)
         /\ q'[w].pc = "fetch" => ~q'[w].alias]_vars

\* a request raised on a page after the first while the cache held the list
\* of an earlier query and its feed was running
C11_Witness ==
    /\ q["w1"].err = "RequestException"
    /\ q["w1"].calls >= 2
    /\ KLINE_CACHE.key # NoKey
    /\ Len(KLINE_CACHE.data) > 0
    /\ WS_RUNNING

\* a query for an interval token, a wall-clock string or a zone that does not
\* resolve has raised while the cache held the list of an earlier query
C11_WitnessRejected ==
    /\ q["w1"].err \in {"ValueError", "KeyError", "IndexError", "ZeroDivisionError",
                       "ZoneInfoNotFoundError"}
    /\ KLINE_CACHE.key # NoKey

\* C12: a fetch in which a page after the first came back as an upstream
\* error response without data does not go on to cache or return the list of
\* the pages before it.
C12_PartialNeverCachedAsComplete ==
    \A w \in Workers :
      q[w].failed_page > 1 => q[w].pc \notin {"write_key", "write_data", "start_ws"}
\* C17: a query whose resolved start is at or after its resolved end is
\* rejected: no call gets past the conversions with such a range (none
\* requests pages for it), and no such key is written to the cache.
C17_InvalidRangeRejected ==
    /\ \A w \in Workers :
         Active(w) =>
           zoned_local_to_utc_ms(q[w].key.start, q[w].key.timezone) < q[w].end_ms
    /\ KLINE_CACHE.key # NoKey =>
         zoned_local_to_utc_ms(KLINE_CACHE.key.start, KLINE_CACHE.key.timezone)
           < zoned_local_to_utc_ms(KLINE_CACHE.key.end, KLINE_CACHE.key.timezone)
\* C13: a list handed to a reader is a snapshot: as long as the reader holds
\* it, it holds the candles it held when it was returned.  The list
\* get_klines returned last is the list object of the cache while prev.live.
C13_ReturnedListIsSnapshot ==
    prev.live => KLINE_CACHE.data = prev.result
\* C14: the buffer holds at most MAX_KLINES closed candles; a closed update
\* on a full deque removes the oldest closed candle and no other, and on a
\* deque with room removes none; an update of the forming candle removes no
\* closed candle; and the forming candle the buffer holds is the last row of
\* the frame, beyond the MAX_KLINES closed ones when the deque is full.
C14_BoundedFifoKeepsForming ==
    /\ Len(klines) <= MAX_KLINES
    /\ \A i \in 1..Len(lastUp) :
         IF lastUp[i].closed
         THEN klines = (IF Len(bufHist.before) >= MAX_KLINES
                        THEN Tail(bufHist.before) ELSE bufHist.before)
                       \o <<lastUp[i].kline>>
         ELSE klines = bufHist.before /\ current = <<lastUp[i].kline>>
    /\ current # <<>> =>
         /\ Last(to_dataframe) = current[1]
         /\ Len(to_dataframe) = Len(klines) + 1

\* the deque is full and has dropped a candle, and a forming candle is held
C14_Witness ==
    /\ Len(klines) = MAX_KLINES
    /\ bufHist.dropped # <<>>
    /\ current # <<>>
    /\ Len(to_dataframe) = MAX_KLINES + 1
\* consecutive candles of s are one interval apart
GapFree(s, interval_ms) ==
    \A i \in 1..(Len(s) - 1) : s[i + 1].time = s[i].time + interval_ms

\* C15: the list a query returns, and the cached list it is served from
\* once history and live candles are merged, has consecutive candles exactly
\* one interval apart, the seam between the last REST candle and the first
\* live candle included (for an upstream that serves full pages).
C15_MergedSeriesGapFree ==
    upstream.cap >= PAGE_SIZE =>
    /\ KLINE_CACHE.key # NoKey =>
         GapFree(KLINE_CACHE.data, interval_to_ms(KLINE_CACHE.key.interval).val)
    /\ prev.key # NoKey =>
         GapFree(prev.result, interval_to_ms(prev.key.interval).val)
\* the decimal numerals of the positive integers
PositiveNumeral(s) ==
    /\ Len(s) > 0
    /\ \A i \in 1..Len(s) : s[i] \in Digits
    /\ \E i \in 1..Len(s) : s[i] # "0"

UnitMs(unit) ==
    CASE unit = "m" -> 60000 [] unit = "h" -> 3600000 [] unit = "d" -> 86400000

\* C16: interval_to_ms returns n * 60000, n * 3600000 or n * 86400000 for
\* the numeral of a positive integer n followed by m, h or d, and fails for
\* every other token (an unknown unit, a zero or negative integer part): it
\* never returns a zero or negative duration.
C16_IntervalToMsTotalOnValidOnly ==
    \A i \in 1..Len(msResult) :
      IF Len(token) >= 2 /\ Last(token) \in {"m", "h", "d"}
         /\ PositiveNumeral(Front(token))
      THEN /\ msResult[i].ok
           /\ msResult[i].val = DigitsVal(Front(token)) * UnitMs(Last(token))
      ELSE ~msResult[i].ok

\* C16, the valid tokens alone
C16_ValidTokensConverted ==
    \A i \in 1..Len(msResult) :
      (Len(token) >= 2 /\ Last(token) \in {"m", "h", "d"}
       /\ PositiveNumeral(Front(token)))
      => (/\ msResult[i].ok
          /\ msResult[i].val = DigitsVal(Front(token)) * UnitMs(Last(token)))

\* now - (now mod interval_ms) for now = base * hi + lo with 0 <= lo < base
\* and interval_ms a multiple of base, as <<hi part, lo part>>: the clock of
\* the examples, 1_700_000_401_234 ms, is beyond the integers TLC computes
\* with and is held as 1_700_000_401 s and 234 ms
OpenOfSplit(hi, lo, base, interval_ms) ==
    <<hi - (hi % (interval_ms \div base)), 0>>

\* the split computes what current_kline_open computes
SplitAgrees ==
    \A base \in 1..3 :
      \A i \in 1..Len(openResult) :
        openArg % base = 0 =>
          LET r == OpenOfSplit(now \div base, now % base, base, openArg)
          IN  openResult[i] = base * r[1] + r[2]

\* what C18 says of every now >= 0 and interval > 0
OpenTimeLaws ==
    \A i \in 1..Len(openResult) :
      /\ openResult[i] = now - (now % openArg)
      /\ openResult[i] % openArg = 0
      /\ openResult[i] <= now
      /\ now < openResult[i] + openArg
      /\ now % openArg = 0 => openResult[i] = now

\* C18 as stated: the laws, and the examples: interval 3_600_000 with now
\* 1_700_000_401_234 gives 1_700_000_400_000, and now 1_700_000_400_000 is
\* aligned and returned unchanged.
C18_OpenTimeAsStated ==
    /\ OpenTimeLaws
    /\ SplitAgrees
    /\ openResult # <<>> =>
         /\ OpenOfSplit(1700000401, 234, 1000, 3600000) = <<1700000400, 0>>
         /\ OpenOfSplit(1700000400, 0, 1000, 3600000) = <<1700000400, 0>>

\* C18 amended: the laws, and the examples with the open time the formula
\* gives: interval 3_600_000 with now 1_700_000_401_234 gives
\* 1_699_999_200_000, and the aligned now 1_699_999_200_000 is returned
\* unchanged.
C18_OpenTime ==
    /\ OpenTimeLaws
    /\ SplitAgrees
    /\ openResult # <<>> =>
         /\ OpenOfSplit(1700000401, 234, 1000, 3600000) = <<1699999200, 0>>
         /\ OpenOfSplit(1699999200, 0, 1000, 3600000) = <<1699999200, 0>>

\* current_kline_open has been applied at a time inside a candle, after at
\* least one whole interval
C18_Witness ==
    /\ openResult # <<>>
    /\ openArg > 1
    /\ now % openArg # 0
    /\ now > openArg
\* a feed thread that is connecting or subscribed
ActiveFeed(i) == threads[i].st \in {"connecting", "open"}

\* C19: at every moment at most one feed thread is active per
\* (symbol, interval) pair, whatever queries came before.
C19_OneFeedPerPair ==
    \A i, j \in 1..Len(threads) :
      (i # j /\ ActiveFeed(i) /\ ActiveFeed(j)) =>
        ~(threads[i].symbol = threads[j].symbol
          /\ threads[i].interval = threads[j].interval)

\* C20: a feed thread that changes the cached list is the thread subscribed
\* for the symbol and the interval of the cached key.
C20_FeedWritesOwnKeyOnly ==
    [][\A i \in 1..Len(threads), closed \in BOOLEAN :
         \A ts \in FeedTimes(threads[i].interval) :
           (OnMessage(i, ts, closed) /\ KLINE_CACHE'.data # KLINE_CACHE.data)
           => (/\ threads[i].symbol = KLINE_CACHE.key.symbol
               /\ threads[i].interval = KLINE_CACHE.key.interval)]_vars
\* s is a list of candles fetched for key: candles of the key's symbol (the
\* ranges of PairKeys hold at least one candle, so the list is not empty)
FetchedFor(s, key) ==
    /\ Len(s) > 0
    /\ \A i \in 1..Len(s) : s[i].sym = key.symbol

\* C21: under any interleaving of concurrent queries a cache hit for K
\* (a return after no REST request) returns a list fetched for K, and once
\* no query is in flight the slot holds under key K a list fetched for K.
C21_CacheSlotConsistent ==
    /\ (prev.key # NoKey /\ prev.calls = 0) => FetchedFor(prev.result, prev.key)
    /\ ((\A w \in Workers : ~Active(w)) /\ KLINE_CACHE.key # NoKey) =>
         FetchedFor(KLINE_CACHE.data, KLINE_CACHE.key)

\* C21, the slot at rest alone
C21_SlotAtRest ==
    ((\A w \in Workers : ~Active(w)) /\ KLINE_CACHE.key # NoKey) =>
      FetchedFor(KLINE_CACHE.data, KLINE_CACHE.key)
\* the page raw ends the loop as the claim says: it is empty, or short, or
\* its last open time plus one interval reaches or passes the end
EndsLoop(c, raw) ==
    \/ Len(raw) = 0
    \/ Len(raw) < PAGE_SIZE
    \/ Last(raw).time + c.interval_ms >= c.rest_end

\* C22: the loop makes no request after a page that is empty, short, or
\* whose last open time plus one interval reaches the end; between two
\* requests of one fetch the cursor strictly increases; and every fetch
\* that has started leaves the loop, for every upstream whose pages hold
\* only rows at or after startTime.
C22_PaginationTerminates ==
    /\ [][\A raw \in AnyPages("BTCUSDT", MinuteMs, q["w1"].fetch_start) :
            FetchAnyPage("w1", raw) =>
              /\ EndsLoop(q["w1"], raw) => q'["w1"].pc # "fetch"
              /\ q'["w1"].pc = "fetch" => q'["w1"].fetch_start > q["w1"].fetch_start]_vars
    /\ (q["w1"].pc = "fetch") ~> (q["w1"].pc # "fetch")

\* a fetch has left the loop after three requests
C22_Witness ==
    /\ q["w1"].pc = "write_key"
    /\ q["w1"].calls >= 3
\* C23: on every successful connection, the reconnections of the client
\* loop included, exactly one subscribe message has been sent, naming the
\* channel of the feed's symbol and interval, and a data message is handled
\* only on a connection whose subscribe message has been sent.
C23_SubscribeOncePerConnection ==
    /\ [](bws = "streaming" => sent.msgs = <<BufSubscribe>>)
    /\ [](\A i \in 1..Len(threads) :
            threads[i].st = "open" =>
              threads[i].subs =
                <<ServerSubscribe(threads[i].symbol, threads[i].interval)>>)
    /\ [][/\ \A closed \in BOOLEAN :
              BufMessage(MinuteMs, closed) => sent.msgs = <<BufSubscribe>>
         /\ \A i \in 1..Len(threads), closed \in BOOLEAN :
              \A ts \in FeedTimes(threads[i].interval) :
                OnMessage(i, ts, closed) =>
                  threads[i].subs =
                    <<ServerSubscribe(threads[i].symbol, threads[i].interval)>>]_vars

\* the client has reconnected and handled a data message on the new
\* connection, and the server's thread is subscribed
C23_Witness ==
    /\ bws = "streaming"
    /\ sent.again
    /\ lastUp # <<>>
    /\ \E i \in 1..Len(threads) : threads[i].st = "open"

\* C24: a frame without a usable candle (an acknowledgement, another frame
\* without payload, a payload with missing or unconvertible fields, a text
\* that is not JSON) leaves the cached list, the buffer and its frame as
\* they were and leaves the feed connected.
C24_OtherFramesDropped ==
    [][/\ \A i \in 1..Len(threads), frame \in Frames :
            OnOtherFrame(i, frame) =>
              (KLINE_CACHE' = KLINE_CACHE /\ threads'[i].st = "open")
       /\ \A frame \in Frames :
            BufOtherFrame(frame) =>
              (/\ to_dataframe' = to_dataframe
               /\ klines' = klines /\ current' = current
               /\ bws' = "streaming")
       /\ \A frame \in Frames :
            KlineOtherFrame(frame) => UNCHANGED <<serverVars, bufferVars>>]_vars

\* a payload with a missing field has made on_message raise while candles
\* were stored
C24_Witness ==
    /\ lastFrame # <<>>
    /\ \A n \in 1..Len(lastFrame) :
         /\ lastFrame[n].frame = "missing_fields"
         /\ lastFrame[n].outcome = "raised"
         /\ lastFrame[n].by = "server_bitget"
    /\ Len(KLINE_CACHE.data) > 0
    /\ Len(to_dataframe) > 0

====
